---- MODULE Spec2Model ----
(***************************************************************************)
(* Session HTTP client of the front-end: the axios instance `apiClient`    *)
(* of services/baseService.ts (second revision in the file, lines 65-226)  *)
(* with its request and response interceptors, and the AuthProvider        *)
(* (unnamed/part_000, revision of lines 116-364) that calls it, with the  *)
(* redirect handling of pages/LoginPage.tsx (lines 15-68).  A second       *)
(* specification, SpecAuthContext, runs the same client under the          *)
(* AuthProvider of contexts/AuthContext.tsx.                               *)
(* SpecRoundTrip follows a location through the forced redirect and the    *)
(* login page; SpecLive and SpecLoading are the page and the provider's    *)
(* identity checks under fair scheduling, with requests issued for as      *)
(* long as the page is open; SpecTabs adds a second tab of the same        *)
(* origin writing to the shared localStorage.                              *)
(*                                                                         *)
(* One page lifetime is modelled: the module-level variables               *)
(* lastRedirectTime and retryCount live as long as the page does.  An      *)
(* assignment to window.location.href is recorded in `navs`; the page      *)
(* keeps handling responses that arrive before it is unloaded.             *)
(* Logout loads the page anew: the module-level variables and the record   *)
(* in `navs` start again.                                                  *)
(*                                                                         *)
(* Every action is one run-to-completion step of the event loop: an        *)
(* interceptor together with the continuation of the awaiting caller.      *)
(*                                                                         *)
(* Time.  The code reads the clock only in differences: Date.now() minus   *)
(* lastRedirectTime (line 183) and the delay of setTimeout (line 155).     *)
(* The model therefore keeps ages instead of timestamps: sinceRedirect is  *)
(* Date.now() - lastRedirectTime, `waited` is the time a retry timer has   *)
(* run.  Tick ages them by TickMs; an age stops growing once it can no     *)
(* longer change a comparison.  How long an attempt is in flight (axios    *)
(* `timeout` included) is left open: a response, an error or a timeout     *)
(* may be handled at any time after the send.                              *)
(***************************************************************************)
EXTENDS Naturals, Integers, Sequences, FiniteSets, Bags, TLC

\* ---- bounds of the model ------------------------------------------------
MaxReqs == 2
TickMs == 1000
MaxPathLen == 3
MaxEvents == 2

\* ---- program constants --------------------------------------------------
REDIRECT_COOLDOWN == 3000
MaxRetries == 2
BackoffBaseMs == 1000

\* ---- values -------------------------------------------------------------
NoToken == "null"
StoredToken == "abc"
LoginToken == "xyz"
NoUser == "null"
UserData == "user"
NoHeader == <<>>
NoPath == <<>>
HomePath == <<"/">>

LoginPath == <<"/", "l", "o", "g", "i", "n">>
DocsPath == <<"/", "d", "o", "c", "u", "m", "e", "n", "t", "s">>
Paths == {LoginPath, DocsPath}

UsersMeUrl == <<"/", "u", "s", "e", "r", "s", "/", "m", "e">>
LoginUrl == <<"/", "a", "u", "t", "h", "/", "l", "o", "g", "i", "n", "/",
              "a", "c", "c", "e", "s", "s", "-", "t", "o", "k", "e", "n">>
DocumentsUrl == <<"/", "d", "o", "c", "u", "m", "e", "n", "t", "s">>
LogoutUrl == <<"/", "a", "u", "t", "h", "/", "l", "o", "g", "o", "u", "t">>
AuthLoginFragment == <<"/", "a", "u", "t", "h", "/", "l", "o", "g", "i", "n">>
LoginHrefPrefix == <<"/", "l", "o", "g", "i", "n", "?", "r", "e", "d", "i", "r", "e", "c", "t", "=">>

retryableEndpoints == {UsersMeUrl}

Callers == {"isTokenValid", "fetchUser", "login", "logout", "getDocuments",
            "uploadDocument"}

Url(caller) ==
  CASE caller = "isTokenValid" -> UsersMeUrl
    [] caller = "fetchUser" -> UsersMeUrl
    [] caller = "login" -> LoginUrl
    [] caller = "logout" -> LogoutUrl
    [] caller = "getDocuments" -> DocumentsUrl
    [] caller = "uploadDocument" -> DocumentsUrl
    [] OTHER -> <<>>

Method(caller) ==
  CASE caller = "isTokenValid" -> "get"
    [] caller = "fetchUser" -> "get"
    [] caller = "getDocuments" -> "get"
    [] OTHER -> "post"

Errors == {"ECONNABORTED", "E401", "E500"}

\* ---- string helpers -----------------------------------------------------
\* String.prototype.includes
Includes(s, sub) ==
  \E i \in 1..(Len(s) + 1) :
     /\ i + Len(sub) - 1 <= Len(s)
     /\ SubSeq(s, i, i + Len(sub) - 1) = sub

\* s.indexOf(sub) === 0
StartsWith(s, sub) ==
  /\ Len(sub) <= Len(s)
  /\ SubSeq(s, 1, Len(sub)) = sub

EncodeChar(c) ==
  CASE c = "/" -> <<"%", "2", "F">>
    [] c = "?" -> <<"%", "3", "F">>
    [] c = "=" -> <<"%", "3", "D">>
    [] c = "&" -> <<"%", "2", "6">>
    [] c = "%" -> <<"%", "2", "5">>
    [] c = " " -> <<"%", "2", "0">>
    [] OTHER -> <<c>>

encodeURIComponent(s) ==
  LET enc[i \in 0..Len(s)] ==
        IF i = 0 THEN <<>> ELSE enc[i - 1] \o EncodeChar(s[i])
  IN enc[Len(s)]

\* ---- percent-decoding ---------------------------------------------------
HexDigits == {"0", "1", "2", "3", "4", "5", "6", "7", "8", "9",
              "A", "B", "C", "D", "E", "F", "a", "b", "c", "d", "e", "f"}

\* the character of an escape %h1h2, for the escapes the model's paths and
\* encodeURIComponent can make ("other" stands for every other character)
HexPairChar(h1, h2) ==
  CASE <<h1, h2>> = <<"2", "F">> -> "/"
    [] <<h1, h2>> = <<"3", "F">> -> "?"
    [] <<h1, h2>> = <<"3", "D">> -> "="
    [] <<h1, h2>> = <<"2", "6">> -> "&"
    [] <<h1, h2>> = <<"2", "5">> -> "%"
    [] <<h1, h2>> = <<"2", "0">> -> " "
    [] <<h1, h2>> = <<"2", "2">> -> "\""
    [] <<h1, h2>> = <<"5", "2">> -> "R"
    [] <<h1, h2>> = <<"5", "5">> -> "U"
    [] OTHER -> "other"

\* is there an escape %h1h2 at position i of s
IsEscapeAt(s, i) ==
  /\ i + 2 <= Len(s)
  /\ s[i] = "%"
  /\ s[i + 1] \in HexDigits
  /\ s[i + 2] \in HexDigits

\* every escape of s decoded; a '%' that does not begin an escape stays
Unescape(s) ==
  LET n == Len(s)
      dec[i \in 1..(n + 1)] ==
        IF i > n THEN <<>>
        ELSE IF IsEscapeAt(s, i)
             THEN <<HexPairChar(s[i + 1], s[i + 2])>> \o dec[i + 3]
             ELSE <<s[i]>> \o dec[i + 1]
  IN dec[1]

\* the value a thrown URIError is modelled by
URIError == <<"URIError">>

\* decodeURIComponent: every escape is decoded; a '%' that does not begin an
\* escape throws
decodeURIComponent(s) ==
  IF \E i \in 1..Len(s) : s[i] = "%" /\ ~IsEscapeAt(s, i)
  THEN URIError
  ELSE Unescape(s)

\* the decoding URLSearchParams applies to a value: '+' is a space, then
\* every escape is decoded, and a '%' that does not begin an escape stays
SearchParamDecode(s) ==
  Unescape([i \in 1..Len(s) |-> IF s[i] = "+" THEN " " ELSE s[i]])

\* the text of s before its first `c` (all of s if it has none)
Before(s, c) ==
  LET hits == {i \in 1..Len(s) : s[i] = c}
  IN IF hits = {} THEN s
     ELSE SubSeq(s, 1, (CHOOSE i \in hits : \A j \in hits : i <= j) - 1)

RECURSIVE Pow2(_)
Pow2(n) == IF n = 0 THEN 1 ELSE 2 * Pow2(n - 1)

\* ---- Map<string, number> ------------------------------------------------
EmptyMap == [u \in {} |-> 0]
MapGet(m, k) == IF k \in DOMAIN m THEN m[k] ELSE 0
MapSet(m, k, v) == [u \in (DOMAIN m) \cup {k} |-> IF u = k THEN v ELSE m[u]]
MapDeleteNone(m, k) == m
MapDelete(m, k) == [u \in (DOMAIN m) \ {k} |-> m[u]]

\* ---- state ---------------------------------------------------------------
VARIABLES
  token,             \* localStorage 'token'
  user,              \* AuthProvider state `user`
  authUser,          \* localStorage 'auth_user', the cached profile
  sinceRedirect,     \* Date.now() - lastRedirectTime (baseService.ts 89, 182-184)
  retryCount,        \* module Map of baseService.ts, keyed by config.url
  saved,             \* sessionStorage 'redirectAfterLogin'
  redirectPath,      \* LoginPage state `redirectPath` (LoginPage.tsx 15)
  location,          \* window.location.pathname + window.location.search
  visibility,        \* document.visibilityState
  sinceNav,          \* time since the interceptor last assigned window.location.href
  navs,              \* the interceptor's assignments to window.location.href
  reqs,              \* the requests in flight through apiClient, a bag of configs
  issued,            \* how many requests the callers have issued so far
  settled,           \* the request whose promise the step just taken settled
  isLoading,         \* AuthProvider state `isLoading`
  peer,              \* a second tab of the same origin: its AuthProvider
  storageEvents      \* storage events queued for this tab's listener

vars == <<token, user, authUser, sinceRedirect, retryCount, saved, redirectPath,
          location, visibility, sinceNav, navs, reqs, issued, settled,
          isLoading, peer, storageEvents>>

\* no second tab is open
NoPeer == [st |-> "closed", user |-> NoUser]

\* an age beyond every comparison the code makes
LongAgo == REDIRECT_COOLDOWN + TickMs

Aged(a) == IF a > REDIRECT_COOLDOWN THEN a ELSE a + TickMs

Min(a, b) == IF a <= b THEN a ELSE b

\* A request is its axios config and the state of its promise
\* (value: what isTokenValid returned to checkAuth, once it has returned):
\* st: "sent" | "backoff" | "resolved" | "rejected"
\* auth: config.headers.Authorization; attempts: number of sends so far;
\* replaced: the header of the failed attempt that the last resend overwrote
\* with another one (NoHeader if it has overwritten none);
\* resp: the error the handler saw for the attempt that failed last, while
\* the retry timer runs; prev: the error of the attempt before the current one;
\* delay / waited: the setTimeout delay and how much of it has passed.
\* Requests carry no identity of their own: reqs is the bag of those whose
\* promise is pending, `settled` is the one whose promise the last step
\* settled (NoReq after any other step), with the outcome delivered to the
\* caller in resp, and at most MaxReqs requests are issued in one run.
NoReq == [st |-> "none", caller |-> "none", auth |-> NoHeader, attempts |-> 0,
          replaced |-> NoHeader, resp |-> "none", prev |-> "none", delay |-> 0,
          waited |-> 0, value |-> "none"]
Requests == BagToSet(reqs)
Put(b, q) == b (+) SetToBag({q})
Take(b, q) == b (-) SetToBag({q})
Replace(b, q, q2) == Put(Take(b, q), q2)

Bearer(tok) == <<"Bearer ", tok>>

\* variant: the header is set to the bare token
RequestInterceptorBare(hdr, tok) ==
  IF tok # NoToken THEN <<tok>> ELSE hdr

\* baseService.ts 97-113: the request interceptor's effect on the header
RequestInterceptor(hdr, tok) ==
  IF tok # NoToken THEN Bearer(tok) ELSE hdr

\* apiClient.get / apiClient.post: a fresh config through the request interceptor
NewRequest(caller, tok) ==
  [st |-> "sent", caller |-> caller, auth |-> RequestInterceptor(NoHeader, tok),
   attempts |-> 1, replaced |-> NoHeader, resp |-> "none", prev |-> "none",
   delay |-> 0, waited |-> 0, value |-> "none"]

\* the promise settles with outcome `resp`
Settled(q, st, resp) == [q EXCEPT !.st = st, !.resp = resp]

\* variant: the error of the first failed attempt is handed to the caller
SurfacedFirst(q, resp) == IF q.prev # "none" THEN q.prev ELSE resp

\* baseService.ts 163, 205: the promise of a retried call is the promise of
\* the re-sent request, so the caller gets the error of the attempt that is
\* rejected
Surfaced(q, resp) == resp

HasFree == issued < MaxReqs

\* variant: every failure of the identity check makes the token invalid
isTokenValidStrict(hasToken, outcome) == hasToken /\ outcome = "OK"

\* baseService.ts 210-226: the value isTokenValid returns, from whether a
\* token is stored when it is called and from the outcome of its GET /users/me
isTokenValid(hasToken, outcome) ==
  IF ~hasToken THEN FALSE
  ELSE IF outcome = "OK" THEN TRUE
  ELSE IF outcome = "E401" THEN FALSE
  ELSE TRUE

Returned(q, valid) ==
  IF q.caller = "isTokenValid"
  THEN [q EXCEPT !.value = IF valid THEN "true" ELSE "false"]
  ELSE q

\* variant: checkAuth has no finally block
LoadingAfterFetchOnly(caller, valid, loading) ==
  IF caller = "fetchUser" THEN FALSE ELSE loading

\* part_000 212-214, 287-289: `isLoading` once the call of `caller` has
\* settled: the finally block of fetchUser, and the one of checkAuth when
\* isTokenValid has returned false (when it returned true, checkAuth awaits
\* fetchUser first)
LoadingAfter(caller, valid, loading) ==
  IF caller = "fetchUser" \/ (caller = "isTokenValid" /\ ~valid)
  THEN FALSE ELSE loading

\* ---- the response interceptor's decisions --------------------------------
\* variant: a 401 is retried whatever the URL
IsRetryableAnyUrl(url, resp) == resp \in {"ECONNABORTED", "E401"}

\* variant: every failure is retried
IsRetryableAnyError(url, resp) == resp \in Errors

\* baseService.ts 137-142
IsRetryable(url, resp) ==
  \/ resp = "ECONNABORTED"
  \/ /\ resp = "E401"
     /\ \E endpoint \in retryableEndpoints : Includes(url, endpoint)

\* variant: the cap is tested inclusively
UnderRetryCapInclusive(count) == count <= MaxRetries

\* baseService.ts 147
UnderRetryCap(count) == count < MaxRetries

\* baseService.ts 137-147: does the error handler take the retry branch
TakesRetry(url, resp, count) == IsRetryable(url, resp) /\ UnderRetryCap(count)

\* variant: the delay does not grow
RetryDelayFlat(count) == BackoffBaseMs

\* baseService.ts 149
RetryDelay(count) == Pow2(count) * BackoffBaseMs

\* baseService.ts 157-161: the header refresh before the resend
RefreshHeader(hdr, tok) == IF tok # NoToken THEN Bearer(tok) ELSE hdr

\* variant: the URL is compared with the fragment instead of searched for it
IsLoginRequestExact(url) == url = AuthLoginFragment

\* variant: no login bypass (as in the first revision, baseService.ts 54-60)
IsLoginRequestNever(url) == FALSE

\* baseService.ts 170
IsLoginRequest(url) == Includes(url, AuthLoginFragment)

\* variant: >= in place of >
CooldownElapsedInclusive(age) == age >= REDIRECT_COOLDOWN

\* baseService.ts 182-183: now - lastRedirectTime > REDIRECT_COOLDOWN
CooldownElapsed(age) == age > REDIRECT_COOLDOWN

\* variant: the login screen is not told from the other pages
OnLoginScreenNever(path) == FALSE

\* baseService.ts 190
OnLoginScreen(path) == path = LoginPath \/ StartsWith(path, LoginPath)

\* variant: the method is not looked at
IsActiveRequestAnyMethod(vis, method) == vis = "visible"

\* baseService.ts 195
IsActiveRequest(vis, method) == vis = "visible" /\ method # "get"

\* baseService.ts 198-199
RedirectHref(path) == LoginHrefPrefix \o encodeURIComponent(path)

\* variant: the token is removed only where the interceptor navigates
UnauthorizedClearOnRedirect(url, method, st) ==
  IF IsLoginRequest(url) THEN st
  ELSE
    LET currentPath == st.location
    IN IF CooldownElapsed(st.sinceRedirect)
       THEN LET stamped == [st EXCEPT !.sinceRedirect = 0]
            IN IF ~OnLoginScreen(currentPath)
               THEN LET kept == [stamped EXCEPT !.saved = currentPath]
                    IN IF IsActiveRequest(st.visibility, method)
                       THEN [kept EXCEPT
                               !.token = NoToken,
                               !.navs = Append(st.navs,
                                          [href |-> RedirectHref(currentPath),
                                           gap |-> st.sinceNav]),
                               !.sinceNav = 0]
                       ELSE kept
               ELSE stamped
       ELSE st

\* The user becomes authenticated by the response to `caller`: does LoginPage
\* consume the saved path?  After login, handleSubmit removes it and navigates
\* to redirectPath (LoginPage.tsx 53-62); a mounted LoginPage that is rendered
\* for an authenticated user does the same (41-45).
LoginPageConsumes(caller, path) ==
  \/ caller = "login"
  \/ caller = "fetchUser" /\ OnLoginScreen(path)

\* baseService.ts 168-203: the 401 branch, as the new values of the shared state
Unauthorized(url, method, st) ==
  IF IsLoginRequest(url) THEN st
  ELSE
    LET cleared == [st EXCEPT !.token = NoToken]
        currentPath == st.location
    IN IF CooldownElapsed(st.sinceRedirect)
       THEN LET stamped == [cleared EXCEPT !.sinceRedirect = 0]
            IN IF ~OnLoginScreen(currentPath)
               THEN LET kept == [stamped EXCEPT !.saved = currentPath]
                    IN IF IsActiveRequest(st.visibility, method)
                       THEN [kept EXCEPT
                               !.navs = Append(st.navs,
                                          [href |-> RedirectHref(currentPath),
                                           gap |-> st.sinceNav]),
                               !.sinceNav = 0]
                       ELSE kept
               ELSE stamped
       ELSE cleared

Shared == [token |-> token, sinceRedirect |-> sinceRedirect, saved |-> saved,
           location |-> location, visibility |-> visibility,
           sinceNav |-> sinceNav, navs |-> navs]

\* ---- initial state --------------------------------------------------------
\* The page has loaded and AuthProvider has mounted (part_000 152-223).
\* 'token' and the cached profile 'auth_user' may survive from an earlier
\* page.  Without a token checkAuth has reset the user; with a token its
\* identity check is in flight (bootstrapping) or the bootstrap has already
\* completed without a failure.
Init ==
  /\ token \in {NoToken, StoredToken}
  /\ user \in (IF token = NoToken THEN {NoUser} ELSE {NoUser, UserData})
  /\ authUser = user
  /\ sinceRedirect = LongAgo
  /\ retryCount = EmptyMap
  /\ saved = NoPath
  /\ redirectPath = HomePath
  /\ location \in Paths
  /\ visibility \in {"visible", "hidden"}
  /\ sinceNav = LongAgo
  /\ navs = <<>>
  /\ \E bootstrapping \in BOOLEAN :
        /\ ~bootstrapping => (token # NoToken => user # NoUser)
        /\ reqs = IF token # NoToken /\ bootstrapping
                  THEN SetToBag({NewRequest("isTokenValid", token)})
                  ELSE EmptyBag
        /\ issued = IF token # NoToken /\ bootstrapping THEN 1 ELSE 0
        /\ isLoading = (token # NoToken /\ bootstrapping)
  /\ settled = NoReq
  /\ peer = NoPeer
  /\ storageEvents = <<>>

\* ---- environment ----------------------------------------------------------
AgedRequest(q) ==
  IF q.st = "backoff" THEN [q EXCEPT !.waited = Min(@ + TickMs, q.delay)] ELSE q

\* every running timer advances
AgedRequests(b) ==
  LET img == {AgedRequest(x) : x \in BagToSet(b)}
  IN [y \in img |->
        BagCardinality([x \in {z \in BagToSet(b) : AgedRequest(z) = y} |-> b[x]])]

Tick ==
  /\ sinceRedirect' = Aged(sinceRedirect)
  /\ sinceNav' = Aged(sinceNav)
  /\ reqs' = AgedRequests(reqs)
  /\ settled' = NoReq
  /\ UNCHANGED <<token, user, authUser, retryCount, saved, location,
                 visibility, navs, issued, redirectPath,
                 isLoading, peer, storageEvents>>

\* variant: the mount effect that reads the saved path is missing
MountedRedirectPathDefault(savedPath) == HomePath

\* LoginPage.tsx 15, 33-38: `redirectPath` once the mount effects have run
\* for a location without a `redirect` parameter
MountedRedirectPath(savedPath) ==
  IF savedPath # NoPath THEN savedPath ELSE HomePath

\* react-router navigation (a link, ProtectedRoute's Navigate, navigate());
\* entering '/login' mounts LoginPage: rendered for an authenticated user it
\* removes the saved path and navigates on with the initial redirectPath
\* (LoginPage.tsx 41-45), otherwise its mount effects run (22-38)
RouterNavigate(p) ==
  /\ p # location
  /\ IF p = LoginPath /\ user # NoUser
     THEN /\ location' = HomePath
          /\ saved' = NoPath
          /\ redirectPath' = HomePath
     ELSE /\ location' = p
          /\ saved' = saved
          /\ redirectPath' = (IF p = LoginPath THEN MountedRedirectPath(saved)
                               ELSE HomePath)
  /\ settled' = NoReq
  /\ UNCHANGED <<token, user, authUser, sinceRedirect, retryCount,
                 visibility, sinceNav, navs, reqs, issued,
                 isLoading, peer, storageEvents>>

\* ---- callers --------------------------------------------------------------
\* DocumentsPage under ProtectedRoute calls getDocuments / uploadDocument
PageRequest(caller) ==
  /\ HasFree
  /\ user # NoUser
  /\ location = DocsPath
  /\ reqs' = Put(reqs, NewRequest(caller, token))
  /\ issued' = issued + 1
  /\ settled' = NoReq
  /\ UNCHANGED <<token, user, authUser, sinceRedirect, retryCount,
                 saved, location, visibility, sinceNav, navs,
                 redirectPath,
                 isLoading, peer, storageEvents>>

\* LoginPage.handleSubmit -> AuthProvider.login (part_000 299-313)
Login ==
  /\ HasFree
  /\ user = NoUser
  /\ OnLoginScreen(location)
  /\ reqs' = Put(reqs, NewRequest("login", token))
  /\ issued' = issued + 1
  /\ settled' = NoReq
  /\ UNCHANGED <<token, user, authUser, sinceRedirect, retryCount,
                 saved, location, visibility, sinceNav, navs,
                 redirectPath,
                 isLoading, peer, storageEvents>>

\* visibilitychange listener (part_000 226-231) and checkAuth (part_000 188-221)
VisibilityChange ==
  /\ visibility' = (IF visibility = "visible" THEN "hidden" ELSE "visible")
  /\ IF visibility' = "visible"
     THEN IF token # NoToken
          THEN /\ HasFree
               /\ reqs' = Put(reqs, NewRequest("isTokenValid", token))
               /\ issued' = issued + 1
               /\ UNCHANGED <<user, authUser>>
          ELSE /\ user' = NoUser
               /\ authUser' = NoUser
               /\ UNCHANGED <<reqs, issued>>
     ELSE UNCHANGED <<user, authUser, reqs, issued>>
  /\ settled' = NoReq
  /\ isLoading' = (IF visibility' = "visible" /\ token = NoToken
                   THEN FALSE ELSE isLoading)
  /\ UNCHANGED <<token, sinceRedirect, retryCount, saved, location,
                 sinceNav, navs, redirectPath,
                 peer, storageEvents>>

\* variant: logout leaves the token in storage
LogoutKeepsToken ==
  /\ user # NoUser
  /\ user' = NoUser
  /\ authUser' = NoUser
  /\ location' = LoginPath
  /\ redirectPath' = MountedRedirectPath(saved)
  /\ reqs' = EmptyBag
  /\ retryCount' = EmptyMap
  /\ sinceRedirect' = LongAgo
  /\ settled' = [NoReq EXCEPT !.caller = "logout", !.st = "resolved"]
  /\ isLoading' = FALSE
  /\ sinceNav' = LongAgo
  /\ navs' = <<>>
  /\ UNCHANGED <<token, saved, visibility, issued, peer, storageEvents>>

\* part_000 336-346: logout from the layout's menu; no request is made.  The
\* navigation to '/login' it ends with is taken as completed: the page is
\* loaded anew, its pending requests, the ledger, lastRedirectTime and the
\* record of the interceptor's navigations are gone, and LoginPage mounts.
Logout ==
  /\ user # NoUser
  /\ token' = NoToken
  /\ user' = NoUser
  /\ authUser' = NoUser
  /\ location' = LoginPath
  /\ redirectPath' = MountedRedirectPath(saved)
  /\ reqs' = EmptyBag
  /\ retryCount' = EmptyMap
  /\ sinceRedirect' = LongAgo
  /\ settled' = [NoReq EXCEPT !.caller = "logout", !.st = "resolved"]
  /\ isLoading' = FALSE
  /\ sinceNav' = LongAgo
  /\ navs' = <<>>
  /\ UNCHANGED <<saved, visibility, issued, peer, storageEvents>>

\* baseService.ts 211-212: isTokenValid is called while no token is stored
\* (checkAuth tests the token before it calls): false, and no request
IsTokenValidNoToken ==
  /\ token = NoToken
  /\ settled' = [NoReq EXCEPT !.caller = "isTokenValid", !.st = "resolved",
                              !.value = IF isTokenValid(FALSE, "none")
                                        THEN "true" ELSE "false"]
  /\ UNCHANGED <<token, user, authUser, sinceRedirect, retryCount,
                 saved, location, visibility, sinceNav, navs,
                 reqs, issued, redirectPath,
                 isLoading, peer, storageEvents>>

\* ---- response interceptor, success (baseService.ts 122-129) ---------------
\* a 2xx response arrives; then the continuation of the awaiting caller:
\* login (part_000 315-329), fetchUser (272-274), checkAuth after
\* isTokenValid returned true (194-197)
Fulfilled(q) ==
  LET valid == isTokenValid(TRUE, "OK")
      invalid == q.caller = "isTokenValid" /\ ~valid
      consumes == LoginPageConsumes(q.caller, location)
  IN
  /\ q.st = "sent"
  /\ retryCount' = MapDelete(retryCount, Url(q.caller))
  /\ token' = (IF q.caller = "login" THEN LoginToken
               ELSE IF invalid THEN NoToken ELSE token)
  /\ user' = (IF q.caller \in {"login", "fetchUser"} THEN UserData
              ELSE IF invalid THEN NoUser ELSE user)
  /\ authUser' = user'
  /\ settled' = Returned(Settled(q, "resolved", "OK"), valid)
  /\ reqs' = IF q.caller = "isTokenValid" /\ valid
             THEN Replace(reqs, q, NewRequest("fetchUser", token))
             ELSE Take(reqs, q)
  /\ saved' = (IF consumes THEN NoPath ELSE saved)
  /\ location' = (IF consumes THEN redirectPath ELSE location)
  /\ redirectPath' = (IF consumes THEN HomePath ELSE redirectPath)
  /\ isLoading' = LoadingAfter(q.caller, valid, isLoading)
  /\ UNCHANGED <<sinceRedirect, visibility, sinceNav, navs, issued,
                 peer, storageEvents>>

\* baseService.ts 143-156: an attempt failed with `resp`; the retry branch up
\* to the await of the timer
ScheduleRetry(q, resp) ==
  LET currentUrl == Url(q.caller)
      currentRetryCount == MapGet(retryCount, currentUrl)
  IN
  /\ q.st = "sent"
  /\ TakesRetry(currentUrl, resp, currentRetryCount)
  /\ retryCount' = MapSet(retryCount, currentUrl, currentRetryCount + 1)
  /\ reqs' = Replace(reqs, q, [q EXCEPT !.st = "backoff", !.resp = resp,
                                            !.delay = RetryDelay(currentRetryCount),
                                            !.waited = 0])
  /\ settled' = NoReq
  /\ UNCHANGED <<token, user, authUser, sinceRedirect, saved,
                 location, visibility, sinceNav, navs, issued,
                 redirectPath,
                 isLoading, peer, storageEvents>>

\* variant: the request is sent again with the header of the failed attempt
ResendStale(q) ==
  /\ q.st = "backoff"
  /\ q.waited >= q.delay
  /\ reqs' = Replace(reqs, q,
                [q EXCEPT !.st = "sent",
                          !.attempts = q.attempts + 1,
                          !.resp = "none", !.prev = q.resp,
                          !.delay = 0, !.waited = 0])
  /\ settled' = NoReq
  /\ UNCHANGED <<token, user, authUser, sinceRedirect, retryCount,
                 saved, location, visibility, sinceNav, navs,
                 issued, redirectPath,
                 isLoading, peer, storageEvents>>

\* baseService.ts 155-163: the timer fired; apiClient(error.config)
Resend(q) ==
  /\ q.st = "backoff"
  /\ q.waited >= q.delay
  /\ reqs' = Replace(reqs, q,
                [q EXCEPT !.st = "sent",
                          !.auth = RequestInterceptor(RefreshHeader(q.auth, token), token),
                          !.replaced = IF RefreshHeader(q.auth, token) # q.auth
                                       THEN q.auth ELSE @,
                          !.attempts = q.attempts + 1,
                          !.resp = "none", !.prev = q.resp,
                          !.delay = 0, !.waited = 0])
  /\ settled' = NoReq
  /\ UNCHANGED <<token, user, authUser, sinceRedirect, retryCount,
                 saved, location, visibility, sinceNav, navs,
                 issued, redirectPath,
                 isLoading, peer, storageEvents>>

\* baseService.ts 167-205: an attempt failed with `resp` and is not retried;
\* the 401 branch and the rejection, then the catch block of the caller
\* (isTokenValid 218-225 and checkAuth 194-209, fetchUser 275-286, login 330-333)
Rejected(q, resp) ==
  LET url == Url(q.caller)
      after == IF resp = "E401"
               THEN Unauthorized(url, Method(q.caller), Shared) ELSE Shared
      seen == Surfaced(q, resp)
      valid == isTokenValid(TRUE, seen)
      clears == \/ q.caller = "fetchUser" /\ seen = "E401"
                \/ q.caller = "isTokenValid" /\ ~valid
      stillValid == q.caller = "isTokenValid" /\ valid
  IN
  /\ q.st = "sent"
  /\ ~TakesRetry(url, resp, MapGet(retryCount, url))
  /\ token' = (IF clears THEN NoToken ELSE after.token)
  /\ user' = (IF clears THEN NoUser ELSE user)
  /\ authUser' = (IF clears THEN NoUser ELSE authUser)
  /\ sinceRedirect' = after.sinceRedirect
  /\ saved' = after.saved
  /\ sinceNav' = after.sinceNav
  /\ navs' = after.navs
  /\ settled' = Returned(Settled(q, "rejected", seen), valid)
  /\ reqs' = IF stillValid
             THEN Replace(reqs, q, NewRequest("fetchUser", after.token))
             ELSE Take(reqs, q)
  /\ isLoading' = LoadingAfter(q.caller, valid, isLoading)
  /\ UNCHANGED <<retryCount, location, visibility, issued,
                 redirectPath,
                 peer, storageEvents>>

Next ==
  \/ Tick
  \/ \E p \in Paths : RouterNavigate(p)
  \/ \E c \in {"getDocuments", "uploadDocument"} : PageRequest(c)
  \/ Login
  \/ Logout
  \/ VisibilityChange
  \/ IsTokenValidNoToken
  \/ \E q \in Requests : Fulfilled(q)
  \/ \E q \in Requests, resp \in Errors : ScheduleRetry(q, resp)
  \/ \E q \in Requests : Resend(q)
  \/ \E q \in Requests, resp \in Errors : Rejected(q, resp)

Spec == Init /\ [][Next]_vars

\* ---- the AuthProvider of contexts/AuthContext.tsx --------------------------
\* The other revision of the provider: on mount it calls fetchUser when a
\* token is stored (40-50); it has no isTokenValid, no cached profile and no
\* visibilitychange listener.  The interceptors are the same.
InitAuthContext ==
  /\ token \in {NoToken, StoredToken}
  /\ user = NoUser
  /\ authUser = NoUser
  /\ sinceRedirect = LongAgo
  /\ retryCount = EmptyMap
  /\ saved = NoPath
  /\ redirectPath = HomePath
  /\ location \in Paths
  /\ visibility \in {"visible", "hidden"}
  /\ sinceNav = LongAgo
  /\ navs = <<>>
  /\ reqs = IF token # NoToken
            THEN SetToBag({NewRequest("fetchUser", token)})
            ELSE EmptyBag
  /\ issued = IF token # NoToken THEN 1 ELSE 0
  /\ settled = NoReq
  /\ isLoading = (token # NoToken)
  /\ peer = NoPeer
  /\ storageEvents = <<>>

\* document.visibilityState changes; this provider does not listen
VisibilityToggle ==
  /\ visibility' = (IF visibility = "visible" THEN "hidden" ELSE "visible")
  /\ settled' = NoReq
  /\ UNCHANGED <<token, user, authUser, sinceRedirect, retryCount,
                 saved, location, sinceNav, navs, reqs, issued,
                 redirectPath,
                 isLoading, peer, storageEvents>>

\* AuthContext.tsx 105-108: logout posts to '/auth/logout' and awaits it
LogoutRequest ==
  /\ HasFree
  /\ user # NoUser
  /\ reqs' = Put(reqs, NewRequest("logout", token))
  /\ issued' = issued + 1
  /\ settled' = NoReq
  /\ UNCHANGED <<token, user, authUser, sinceRedirect, retryCount, saved,
                 location, visibility, sinceNav, navs, redirectPath,
                 isLoading, peer, storageEvents>>

\* success handler of the interceptor (baseService.ts 122-129), then the
\* continuation of fetchUser (AuthContext.tsx 55-57), login (84-98) or
\* logout (109-111)
FulfilledAuthContext(q) ==
  /\ q.st = "sent"
  /\ retryCount' = MapDelete(retryCount, Url(q.caller))
  /\ token' = (IF q.caller = "login" THEN LoginToken
               ELSE IF q.caller = "logout" THEN NoToken ELSE token)
  /\ user' = (IF q.caller \in {"login", "fetchUser"} THEN UserData
              ELSE IF q.caller = "logout" THEN NoUser ELSE user)
  /\ settled' = Settled(q, "resolved", "OK")
  /\ reqs' = Take(reqs, q)
  /\ saved' = (IF LoginPageConsumes(q.caller, location) THEN NoPath ELSE saved)
  /\ location' = (IF LoginPageConsumes(q.caller, location)
                  THEN redirectPath ELSE location)
  /\ redirectPath' = (IF LoginPageConsumes(q.caller, location)
                      THEN HomePath ELSE redirectPath)
  /\ isLoading' = LoadingAfter(q.caller, TRUE, isLoading)
  /\ UNCHANGED <<authUser, sinceRedirect, visibility, sinceNav, navs, issued,
                 peer, storageEvents>>

\* error handler of the interceptor rejecting (baseService.ts 167-205), then
\* the catch block of fetchUser (AuthContext.tsx 58-62), login (99-101) or
\* logout (112-117)
RejectedAuthContext(q, resp) ==
  LET url == Url(q.caller)
      after == IF resp = "E401"
               THEN Unauthorized(url, Method(q.caller), Shared) ELSE Shared
      seen == Surfaced(q, resp)
      clears == q.caller \in {"fetchUser", "logout"}
  IN
  /\ q.st = "sent"
  /\ ~TakesRetry(url, resp, MapGet(retryCount, url))
  /\ token' = (IF clears THEN NoToken ELSE after.token)
  /\ user' = (IF clears THEN NoUser ELSE user)
  /\ sinceRedirect' = after.sinceRedirect
  /\ saved' = after.saved
  /\ sinceNav' = after.sinceNav
  /\ navs' = after.navs
  /\ settled' = Settled(q, "rejected", seen)
  /\ reqs' = Take(reqs, q)
  /\ isLoading' = LoadingAfter(q.caller, TRUE, isLoading)
  /\ UNCHANGED <<authUser, retryCount, location, visibility, issued,
                 redirectPath,
                 peer, storageEvents>>

NextAuthContext ==
  \/ Tick
  \/ \E p \in Paths : RouterNavigate(p)
  \/ \E c \in {"getDocuments", "uploadDocument"} : PageRequest(c)
  \/ Login
  \/ LogoutRequest
  \/ VisibilityToggle
  \/ \E q \in Requests : FulfilledAuthContext(q)
  \/ \E q \in Requests, resp \in Errors : ScheduleRetry(q, resp)
  \/ \E q \in Requests : Resend(q)
  \/ \E q \in Requests, resp \in Errors : RejectedAuthContext(q, resp)

SpecAuthContext == InitAuthContext /\ [][NextAuthContext]_vars

\* ---- the forced redirect and the login page it loads ----------------------
\* window.location.search of a location (pathname + search), without the '?'
SearchOf(loc) ==
  LET path == Before(loc, "?")
  IN IF Len(path) = Len(loc) THEN <<>> ELSE SubSeq(loc, Len(path) + 2, Len(loc))

RedirectParamName == <<"r", "e", "d", "i", "r", "e", "c", "t", "=">>

\* LoginPage.tsx 23-24: new URLSearchParams(search).get('redirect'), for a
\* search whose first parameter is the one looked for (NoPath: null)
RedirectParam(search) ==
  LET first == Before(search, "&")
  IN IF StartsWith(first, RedirectParamName)
     THEN SearchParamDecode(SubSeq(first, Len(RedirectParamName) + 1, Len(first)))
     ELSE NoPath

\* LoginPage.tsx 25-38: the two mount effects for the parameter value
\* `redirect`; `redirectPath` and the saved path once they have run
\* (URIError: the first effect threw)
LoginPageMount(redirect, savedPath) ==
  LET decoded == decodeURIComponent(redirect)
      stored == IF redirect # NoPath THEN decoded ELSE savedPath
  IN IF redirect # NoPath /\ decoded = URIError
     THEN [saved |-> savedPath, redirectPath |-> URIError]
     ELSE [saved |-> stored, redirectPath |-> MountedRedirectPath(stored)]

PathChars == {"x", "%", "2", "5"}

\* the current locations tried: '/' followed by up to MaxPathLen characters
RoundTripPaths ==
  {HomePath \o t : t \in UNION {[1..n -> PathChars] : n \in 0..MaxPathLen}}

InitRoundTrip ==
  /\ token = StoredToken
  /\ user = UserData
  /\ authUser = UserData
  /\ sinceRedirect = LongAgo
  /\ retryCount = EmptyMap
  /\ saved = NoPath
  /\ redirectPath = HomePath
  /\ location \in RoundTripPaths
  /\ visibility = "visible"
  /\ sinceNav = LongAgo
  /\ navs = <<>>
  /\ reqs = EmptyBag
  /\ issued = 0
  /\ settled = NoReq
  /\ isLoading = FALSE
  /\ peer = NoPeer
  /\ storageEvents = <<>>

\* a POST made on the current page is answered 401 and rejected
\* (baseService.ts 167-205)
Post401 ==
  LET after == Unauthorized(DocumentsUrl, "post", Shared)
  IN
  /\ navs = <<>>
  /\ token # NoToken
  /\ token' = after.token
  /\ sinceRedirect' = after.sinceRedirect
  /\ saved' = after.saved
  /\ sinceNav' = after.sinceNav
  /\ navs' = after.navs
  /\ settled' = NoReq
  /\ UNCHANGED <<user, authUser, retryCount, location, visibility, reqs,
                 issued, redirectPath,
                 isLoading, peer, storageEvents>>

\* the browser loads the href the interceptor assigned: a new page, whose
\* AuthProvider finds no token (part_000 215-219) and whose LoginPage mounts
LoginPageLoad ==
  /\ navs # <<>>
  /\ ~OnLoginScreen(location)
  /\ token = NoToken
  /\ location' = navs[Len(navs)].href
  /\ user' = NoUser
  /\ authUser' = NoUser
  /\ \E search \in {SearchOf(navs[Len(navs)].href)} :
     \E redirect \in {RedirectParam(search)} :
     \E mounted \in {LoginPageMount(redirect, saved)} :
        /\ saved' = mounted.saved
        /\ redirectPath' = mounted.redirectPath
  /\ sinceRedirect' = LongAgo
  /\ retryCount' = EmptyMap
  /\ reqs' = EmptyBag
  /\ settled' = NoReq
  /\ isLoading' = FALSE
  /\ UNCHANGED <<token, visibility, sinceNav, navs, issued,
                 peer, storageEvents>>

\* the login form is there to submit unless the mount effect threw
NextRoundTrip ==
  \/ Post401
  \/ LoginPageLoad
  \/ redirectPath # URIError /\ Login
  \/ \E q \in Requests : Fulfilled(q)

SpecRoundTrip == InitRoundTrip /\ [][NextRoundTrip]_vars

\* ---- the page for as long as it is open -----------------------------------
\* The callers go on issuing requests; what is bounded is how many are
\* pending at once.  An assignment to window.location.href ends the page: the
\* login page is loaded in its place.
HasFreeSlot == BagCardinality(reqs) < MaxReqs

Pending(caller) == \E q \in Requests : q.caller = caller

PageAlive == navs = <<>> \/ OnLoginScreen(location)

\* DocumentsPage calls again once its previous call has settled
PageRequestLive(caller) ==
  /\ HasFreeSlot
  /\ ~Pending(caller)
  /\ user # NoUser
  /\ location = DocsPath
  /\ reqs' = Put(reqs, NewRequest(caller, token))
  /\ settled' = NoReq
  /\ UNCHANGED <<token, user, authUser, sinceRedirect, retryCount,
                 saved, location, visibility, sinceNav, navs,
                 redirectPath, issued, isLoading, peer, storageEvents>>

\* visibilitychange listener (part_000 226-231) and checkAuth (188-221)
VisibilityChangeLive ==
  /\ visibility' = (IF visibility = "visible" THEN "hidden" ELSE "visible")
  /\ IF visibility' = "visible"
     THEN IF token # NoToken
          THEN /\ HasFreeSlot
               /\ reqs' = Put(reqs, NewRequest("isTokenValid", token))
               /\ UNCHANGED <<user, authUser, isLoading>>
          ELSE /\ user' = NoUser
               /\ authUser' = NoUser
               /\ isLoading' = FALSE
               /\ UNCHANGED reqs
     ELSE UNCHANGED <<user, authUser, reqs, isLoading>>
  /\ settled' = NoReq
  /\ UNCHANGED <<token, sinceRedirect, retryCount, saved, location,
                 sinceNav, navs, redirectPath, issued, peer, storageEvents>>

\* baseService.ts 155-163, with the sends counted up to MaxRetries + 1
ResendLive(q) ==
  /\ q.st = "backoff"
  /\ q.waited >= q.delay
  /\ reqs' = Replace(reqs, q,
                [q EXCEPT !.st = "sent",
                          !.auth = RequestInterceptor(RefreshHeader(q.auth, token), token),
                          !.replaced = IF RefreshHeader(q.auth, token) # q.auth
                                       THEN q.auth ELSE @,
                          !.attempts = Min(q.attempts + 1, MaxRetries + 1),
                          !.resp = "none", !.prev = q.resp,
                          !.delay = 0, !.waited = 0])
  /\ settled' = NoReq
  /\ UNCHANGED <<token, user, authUser, sinceRedirect, retryCount,
                 saved, location, visibility, sinceNav, navs,
                 issued, redirectPath, isLoading, peer, storageEvents>>

\* the attempt in flight gets a response, or times out
Respond(q) ==
  \/ Fulfilled(q)
  \/ \E resp \in Errors : ScheduleRetry(q, resp)
  \/ \E resp \in Errors : Rejected(q, resp)

IdentityCallers == {"isTokenValid", "fetchUser"}

LiveCallers == IdentityCallers \cup {"getDocuments", "uploadDocument"}

\* the page's calls and the identity check begun at mount
NextLive ==
  \/ PageAlive /\ Tick
  \/ PageAlive /\ \E c \in {"getDocuments", "uploadDocument"} : PageRequestLive(c)
  \/ PageAlive /\ \E q \in Requests : Fulfilled(q)
  \/ PageAlive /\ \E q \in Requests, resp \in Errors : ScheduleRetry(q, resp)
  \/ PageAlive /\ \E q \in Requests : ResendLive(q)
  \/ PageAlive /\ \E q \in Requests, resp \in Errors : Rejected(q, resp)
  \/ LoginPageLoad

\* the timers run and fire, every attempt in flight gets a response or times
\* out, and the browser completes a navigation it has begun
FairLive ==
  /\ WF_vars(PageAlive /\ Tick)
  /\ WF_vars(LoginPageLoad)
  /\ \A c \in LiveCallers :
        /\ WF_vars(PageAlive /\ \E q \in Requests : q.caller = c /\ ResendLive(q))
        /\ WF_vars(PageAlive /\ \E q \in Requests : q.caller = c /\ Respond(q))

SpecLive == Init /\ [][NextLive]_vars /\ FairLive

\* AuthProvider's identity checks alone: the one begun at mount and those
\* every return to the tab begins
NextLoading ==
  \/ Tick
  \/ VisibilityChangeLive
  \/ \E q \in Requests : Fulfilled(q)
  \/ \E q \in Requests, resp \in Errors : ScheduleRetry(q, resp)
  \/ \E q \in Requests : ResendLive(q)
  \/ \E q \in Requests, resp \in Errors : Rejected(q, resp)

FairLoading ==
  /\ WF_vars(Tick)
  /\ \A c \in IdentityCallers :
        /\ WF_vars(\E q \in Requests : q.caller = c /\ ResendLive(q))
        /\ WF_vars(\E q \in Requests : q.caller = c /\ Respond(q))

SpecLoading == Init /\ [][NextLoading]_vars /\ FairLoading

\* ---- two tabs of one origin ------------------------------------------------
\* localStorage ('token', 'auth_user') is shared.  The other tab runs the same
\* AuthProvider; it is followed as far as its writes to storage go: each write
\* that changes a value queues a storage event for this tab (`by` records
\* which of its operations wrote).  This tab's writes reach the other tab's
\* listener in the same way; that listener is not followed.
StorageEvent(key, old, new, by) ==
  [key |-> key, oldValue |-> old, newValue |-> new, by |-> by]

\* setItem / removeItem in the other tab: an event only if the value changes
Written(events, key, old, new, by) ==
  IF old = new THEN events ELSE Append(events, StorageEvent(key, old, new, by))

\* variant: the listener looks at 'auth_user' only
OnStorageEventUserOnly(e) ==
  IF e.key = "auth_user"
  THEN IF e.newValue = NoUser THEN "setNull"
       ELSE IF e.newValue # e.oldValue THEN "setUser" ELSE "none"
  ELSE "none"

\* part_000 236-258: what handleStorageChange does for the event
OnStorageEvent(e) ==
  IF e.key = "token"
  THEN IF e.newValue = NoToken THEN "setNull"
       ELSE IF e.newValue # e.oldValue THEN "fetchUser" ELSE "none"
  ELSE IF e.key = "auth_user"
  THEN IF e.newValue = NoUser THEN "setNull"
       ELSE IF e.newValue # e.oldValue THEN "setUser" ELSE "none"
  ELSE "none"

\* part_000 236-258, then the persistence effect for the new `user`
\* (178-184, run when `user` has changed) or fetchUser up to its request (270)
HandleStorageChange ==
  /\ storageEvents # <<>>
  /\ LET e == Head(storageEvents)
         does == OnStorageEvent(e)
     IN /\ storageEvents' = Tail(storageEvents)
        /\ user' = (IF does = "setNull" THEN NoUser
                    ELSE IF does = "setUser" THEN e.newValue ELSE user)
        /\ authUser' = (IF does = "setNull" /\ user # NoUser THEN NoUser
                        ELSE IF does = "setUser" THEN e.newValue ELSE authUser)
        /\ IF does = "fetchUser"
           THEN /\ HasFree
                /\ reqs' = Put(reqs, NewRequest("fetchUser", token))
                /\ issued' = issued + 1
           ELSE UNCHANGED <<reqs, issued>>
  /\ settled' = NoReq
  /\ UNCHANGED <<token, sinceRedirect, retryCount, saved, redirectPath,
                 location, visibility, sinceNav, navs, isLoading, peer>>

\* the application is opened in a second tab: the mount effects of its
\* AuthProvider in their order (part_000 160-223).  loadPersistedUser reads
\* the cached profile; the persistence effect runs with the `user` of the
\* first render, null, and removes it; checkAuth without a token resets.
PeerMounts ==
  /\ peer.st = "closed"
  /\ Len(storageEvents) < MaxEvents
  /\ peer' = [st |-> "mounted",
              user |-> IF token = NoToken THEN NoUser ELSE authUser]
  /\ authUser' = NoUser
  /\ storageEvents' = Written(storageEvents, "auth_user", authUser, NoUser, "mount")
  /\ settled' = NoReq
  /\ UNCHANGED <<token, user, sinceRedirect, retryCount, saved, redirectPath,
                 location, visibility, sinceNav, navs, reqs, issued, isLoading>>

\* the second tab renders again with the profile it read, and its
\* persistence effect writes it back (part_000 178-181)
PeerPersists ==
  /\ peer.st = "mounted"
  /\ Len(storageEvents) < MaxEvents
  /\ peer' = [peer EXCEPT !.st = "open"]
  /\ authUser' = (IF peer.user # NoUser THEN peer.user ELSE authUser)
  /\ storageEvents' = Written(storageEvents, "auth_user", authUser, authUser', "mount")
  /\ settled' = NoReq
  /\ UNCHANGED <<token, user, sinceRedirect, retryCount, saved, redirectPath,
                 location, visibility, sinceNav, navs, reqs, issued, isLoading>>

\* a login succeeds in the second tab (part_000 315-329, then 178-181)
PeerLogin ==
  /\ peer.st = "open"
  /\ peer.user = NoUser
  /\ Len(storageEvents) + 2 <= MaxEvents
  /\ \E new \in {StoredToken, LoginToken} \ {token} :
        /\ token' = new
        /\ storageEvents' =
             Written(Written(storageEvents, "token", token, new, "login"),
                     "auth_user", authUser, UserData, "login")
  /\ authUser' = UserData
  /\ peer' = [peer EXCEPT !.user = UserData]
  /\ settled' = NoReq
  /\ UNCHANGED <<user, sinceRedirect, retryCount, saved, redirectPath,
                 location, visibility, sinceNav, navs, reqs, issued, isLoading>>

\* logout in the second tab (part_000 336-346); its page is loaded anew
PeerLogout ==
  /\ peer.st = "open"
  /\ peer.user # NoUser
  /\ Len(storageEvents) + 2 <= MaxEvents
  /\ token' = NoToken
  /\ authUser' = NoUser
  /\ storageEvents' =
       Written(Written(storageEvents, "token", token, NoToken, "logout"),
               "auth_user", authUser, NoUser, "logout")
  /\ peer' = [peer EXCEPT !.user = NoUser]
  /\ settled' = NoReq
  /\ UNCHANGED <<user, sinceRedirect, retryCount, saved, redirectPath,
                 location, visibility, sinceNav, navs, reqs, issued, isLoading>>

\* the second tab is closed
PeerCloses ==
  /\ peer.st = "open"
  /\ peer' = NoPeer
  /\ settled' = NoReq
  /\ UNCHANGED <<token, user, authUser, sinceRedirect, retryCount, saved,
                 redirectPath, location, visibility, sinceNav, navs, reqs,
                 issued, isLoading, storageEvents>>

NextTabs ==
  \/ Tick
  \/ HandleStorageChange
  \/ PeerMounts
  \/ PeerPersists
  \/ PeerLogin
  \/ PeerLogout
  \/ PeerCloses
  \/ \E q \in Requests : Fulfilled(q)
  \/ \E q \in Requests, resp \in Errors : ScheduleRetry(q, resp)
  \/ \E q \in Requests : Resend(q)
  \/ \E q \in Requests, resp \in Errors : Rejected(q, resp)

\* this tab has been open for a while, with or without a session
InitTabs ==
  /\ Init
  /\ reqs = EmptyBag
  /\ location = DocsPath
  /\ visibility = "visible"

SpecTabs == InitTabs /\ [][NextTabs]_vars

\* ---- properties ----------------------------------------------------------
IsGet(q) == Method(q.caller) = "get"
IsLogin(q) == Includes(Url(q.caller), AuthLoginFragment)
AllowListed(q) == \E endpoint \in retryableEndpoints : Includes(Url(q.caller), endpoint)

\* the step takes q, as it is, out of the pending requests
Leaves(q) == CopiesIn(q, reqs') < CopiesIn(q, reqs)

\* the error handler of the response interceptor runs for q with `resp` and
\* retries it / rejects it
RetriedWith(q, resp) == Leaves(q) /\ ScheduleRetry(q, resp)
RejectedWith(q, resp) == Leaves(q) /\ Rejected(q, resp)

\* the error handler of the response interceptor runs for q with a 401
Handled401(q) == RetriedWith(q, "E401") \/ RejectedWith(q, "E401")

\* C1: every attempt that is sent, a first send or a retry, carries
\* 'Bearer ' + the stored token if a token is stored when the request
\* interceptor runs.
C1_AttemptCarriesStoredToken ==
  [][\A q \in BagToSet(reqs') :
        (q.st = "sent" /\ CopiesIn(q, reqs') > CopiesIn(q, reqs) /\ token' # NoToken)
          => q.auth = <<"Bearer ", token'>>]_vars

\* a retry has been sent after a login replaced the stored token
C1_Witness ==
  \E q \in Requests :
     q.st = "sent" /\ q.attempts >= 2 /\ token = LoginToken /\ q.auth = <<"Bearer ", LoginToken>>

\* C2: a 401 for a request whose URL contains '/auth/login' is rejected to the
\* caller, leaves the stored token in place and causes no navigation.
C2_Login401Bypass ==
  [][\A q \in Requests :
        (IsLogin(q) /\ Handled401(q))
          => /\ token' = token
             /\ navs' = navs
             /\ settled' = Settled(q, "rejected", "E401")
             /\ reqs' = Take(reqs, q)]_vars

\* a login was rejected with a 401 while a token is stored
C2_Witness ==
  /\ settled.caller = "login"
  /\ settled.st = "rejected"
  /\ settled.resp = "E401"
  /\ token # NoToken

C4_AtMostThreeAttempts ==
  \A q \in Requests : q.attempts <= MaxRetries + 1

\* C5 (as specified): a call to '/users/me' whose first attempt times out is sent
\* again, and not before 1 second after the failure.
C5_TimeoutRetriedOnce ==
  [][\A q \in Requests :
        (AllowListed(q) /\ q.attempts = 1)
          => /\ ~RejectedWith(q, "ECONNABORTED")
             /\ (Leaves(q) /\ Resend(q)) => q.waited >= BackoffBaseMs]_vars

C7_Active401Navigates ==
  [][\A q \in Requests :
        (/\ ~IsGet(q)
         /\ ~IsLogin(q)
         /\ visibility = "visible"
         /\ ~OnLoginScreen(location)
         /\ sinceNav > REDIRECT_COOLDOWN
         /\ Handled401(q))
          => /\ Len(navs') = Len(navs) + 1
             /\ navs'[Len(navs')].href = LoginHrefPrefix \o encodeURIComponent(location)]_vars

\* C8 (as specified): a 401 for a GET request causes no navigation and removes
\* the stored token.
C8_Get401ClearsToken ==
  [][\A q \in Requests :
        (IsGet(q) /\ Handled401(q)) => (navs' = navs /\ token' = NoToken)]_vars

\* C8 (amended): a 401 for a GET request causes no navigation; the stored token
\* is removed when the 401 is rejected to the caller, and left in place when
\* the interceptor retries the request.
C8_Get401NeverNavigates ==
  [][\A q \in Requests :
        IsGet(q) =>
          /\ Handled401(q) => navs' = navs
          /\ RejectedWith(q, "E401") => token' = NoToken
          /\ RetriedWith(q, "E401") => token' = token]_vars

\* a GET was rejected with a 401 with every other guard of the redirect open:
\* the cooldown had elapsed (it was stamped), the document is visible, the path
\* is not the login screen; nothing was navigated and the token is gone
C8_Witness ==
  /\ settled.caller = "getDocuments"
  /\ settled.st = "rejected"
  /\ settled.resp = "E401"
  /\ sinceRedirect = 0
  /\ visibility = "visible"
  /\ saved = location
  /\ navs = <<>>
  /\ token = NoToken

\* C9: when a request to another endpoint than login is rejected with a 401,
\* the token has been removed from storage, whatever the cooldown, the
\* visibility, the method and the path.
C9_Rejected401ClearsToken ==
  [][\A q \in Requests :
        (~IsLogin(q) /\ RejectedWith(q, "E401")) => token' = NoToken]_vars

\* an upload was rejected with a 401 inside the cooldown of an earlier 401
\* (the stamp is older than the rejection) and the token is gone
C9_Witness ==
  /\ settled.caller = "uploadDocument"
  /\ settled.st = "rejected"
  /\ settled.resp = "E401"
  /\ navs = <<>>
  /\ visibility = "visible"
  /\ ~OnLoginScreen(location)
  /\ token = NoToken

\* no interceptor is suspended at its await
Quiescent == \A q \in Requests : q.st # "backoff"

\* C10 (as specified): between handlers, the user is authenticated only if a
\* token is stored.
C10_UserImpliesToken ==
  Quiescent => (user # NoUser => token # NoToken)

\* C11: when a request that was retried is rejected, and in particular when
\* its third attempt is, the caller gets the error of that last attempt, not
\* the error of an earlier one.
C11_FinalErrorSurfaces ==
  [][\A q \in Requests, resp \in Errors :
        (q.attempts >= 2 /\ RejectedWith(q, resp))
          => (settled'.st = "rejected" /\ settled'.resp = resp)]_vars

\* a third attempt was rejected with another error than the second attempt
C11_Witness ==
  /\ settled.st = "rejected"
  /\ settled.attempts = MaxRetries + 1
  /\ settled.prev # "none"
  /\ settled.resp # settled.prev

\* C12: isTokenValid returns false exactly when it is called with no token
\* stored, and then issues no request, or when its identity check ends
\* rejected with a 401; it returns true when the check succeeds or ends with
\* any other error.
C12_IsTokenValidResult ==
  [][(settled' # NoReq /\ settled'.caller = "isTokenValid")
       => /\ settled'.value \in {"true", "false"}
          /\ settled'.value = "false"
               <=> \/ settled'.attempts = 0
                   \/ settled'.st = "rejected" /\ settled'.resp = "E401"
          /\ settled'.attempts = 0
               <=> (token = NoToken /\ reqs' = reqs /\ issued' = issued)]_vars

\* the identity check timed out on all three attempts and isTokenValid
\* returned true
C12_Witness ==
  /\ settled.caller = "isTokenValid"
  /\ settled.st = "rejected"
  /\ settled.resp = "ECONNABORTED"
  /\ settled.attempts = MaxRetries + 1
  /\ settled.value = "true"

\* C13 (as specified): a failure of the identity check that is not a 401,
\* retried or handed to checkAuth / fetchUser, leaves the stored token, the
\* cached profile and the user as they are.
C13_OnlyA401ClearsSession ==
  [][/\ \A q \in Requests, resp \in Errors \ {"E401"} :
          (Url(q.caller) = UsersMeUrl /\ RetriedWith(q, resp))
            => (token' = token /\ user' = user /\ authUser' = authUser)
     /\ (/\ settled' # NoReq
         /\ Url(settled'.caller) = UsersMeUrl
         /\ settled'.st = "rejected"
         /\ settled'.resp # "E401")
          => (token' = token /\ user' = user /\ authUser' = authUser)]_vars

\* C14: right after the success handler has run for a response to URL u the
\* ledger has no entry for u, whatever count it held; no failed response,
\* retried or rejected, removes an entry of the ledger.
C14_SuccessClearsLedger ==
  [][/\ (settled'.st = "resolved" /\ settled'.attempts >= 1)
          => Url(settled'.caller) \notin DOMAIN retryCount'
     /\ \A q \in Requests, resp \in Errors :
          (RetriedWith(q, resp) \/ RejectedWith(q, resp))
            => DOMAIN retryCount \subseteq DOMAIN retryCount']_vars

\* the third attempt of a request succeeded (the ledger held 2 for its URL)
\* while the ledger still holds the count of another URL
C14_Witness ==
  /\ settled.st = "resolved"
  /\ settled.attempts = MaxRetries + 1
  /\ Url(settled.caller) \notin DOMAIN retryCount
  /\ retryCount # EmptyMap

\* C15 (as specified): every 401 of a request other than the login call that
\* reaches the redirect policy away from the login screen leaves the current
\* location recorded under 'redirectAfterLogin', whether or not the cooldown
\* has elapsed and whether or not the browser navigates.
C15_Every401RecordsLocation ==
  [][\A q \in Requests :
        (/\ RejectedWith(q, "E401")
         /\ ~Includes(Url(q.caller), AuthLoginFragment)
         /\ ~OnLoginScreen(location))
          => saved' = location]_vars

\* C16: while the current path is the login screen, a 401 of any request
\* causes no navigation and records no return path, and a token that was
\* absent before the 401 is absent after it.
C16_No401RedirectOnLoginScreen ==
  [][\A q \in Requests :
        (StartsWith(location, LoginPath) /\ Handled401(q))
          => /\ navs' = navs
             /\ location' = location
             /\ saved' = saved
             /\ (token = NoToken => token' = NoToken)]_vars

\* on the visible login screen a request that is not a GET was just rejected
\* with a 401 that passed the cooldown: nothing is saved, nothing navigated
C16_Witness ==
  /\ StartsWith(location, LoginPath)
  /\ settled.st = "rejected"
  /\ settled.resp = "E401"
  /\ Method(settled.caller) # "get"
  /\ ~Includes(Url(settled.caller), AuthLoginFragment)
  /\ visibility = "visible"
  /\ sinceRedirect = 0
  /\ saved = NoPath
  /\ navs = <<>>

ResentNow(q) == Leaves(q) /\ Resend(q)

\* C18 (as specified): attempt N (N = 2, 3) of a request is sent at least
\* 2^(N-1) seconds after attempt N-1 failed.
C18_BackoffTwoToTheNMinusOne ==
  [][\A q \in Requests :
        ResentNow(q) => q.waited >= Pow2(q.attempts) * 1000]_vars

\* C18 (amended): a failure that is retried while the ledger holds count c
\* for the URL starts a timer of 1000 ms for c = 0 and 2000 ms for c = 1, and
\* the request is sent again only when that timer has run out, so never
\* before 1000 ms after the failure.
C18_BackoffTwoToTheLedgerCount ==
  [][\A q \in Requests :
        /\ \A resp \in Errors :
             RetriedWith(q, resp)
               => \E r \in BagToSet(reqs') :
                     /\ r.st = "backoff"
                     /\ r.caller = q.caller
                     /\ r.attempts = q.attempts
                     /\ r.waited = 0
                     /\ r.delay = (IF Url(q.caller) \in DOMAIN retryCount
                                   THEN 2000 ELSE 1000)
        /\ ResentNow(q) => (q.waited >= q.delay /\ q.waited >= 1000)]_vars

\* the timer before a third attempt has run its 2000 ms
C18_Witness ==
  \E q \in Requests :
     q.st = "backoff" /\ q.attempts = 2 /\ q.delay = 2000 /\ q.waited = 2000

\* C19: a retry reads the token when it is sent again: if the stored token
\* was replaced by a login while the request waited in backoff, the attempt
\* that is sent carries the new token and not the one of the failed attempt.
C19_RetryCarriesReplacedToken ==
  [][\A q \in Requests :
        (/\ q.auth = <<"Bearer ", StoredToken>>
         /\ token = LoginToken
         /\ ResentNow(q))
          => \E r \in BagToSet(reqs') :
                /\ r.st = "sent"
                /\ r.caller = q.caller
                /\ r.attempts = q.attempts + 1
                /\ r.auth = <<"Bearer ", LoginToken>>]_vars

\* a retried attempt is in flight with the token of a login that replaced
\* the token its failed attempt was sent with
C19_Witness ==
  \E q \in Requests :
     /\ q.st = "sent"
     /\ q.attempts >= 2
     /\ q.replaced = <<"Bearer ", StoredToken>>
     /\ q.auth = <<"Bearer ", LoginToken>>

C27_LedgerCountsOneOrTwo ==
  \A u \in DOMAIN retryCount : retryCount[u] \in {1, 2}

\* the ledger holds 2 for one URL and 1 for another
C27_Witness ==
  \E u, v \in DOMAIN retryCount : retryCount[u] = 2 /\ retryCount[v] = 1

\* C26 (as specified): a request that is sent again while no token is
\* stored, the token having been removed during its backoff, goes out with
\* no Authorization header, not with the token of its failed attempt.
C26_RetryDropsRemovedToken ==
  [][\A q \in Requests :
        (token = NoToken /\ ResentNow(q))
          => \E r \in BagToSet(reqs') :
                /\ r.st = "sent"
                /\ r.caller = q.caller
                /\ r.attempts = q.attempts + 1
                /\ r.auth = NoHeader]_vars

\* C25 (as specified): once a login has stored its token, a 401 handled for
\* an attempt that was sent before that (it does not carry the login's
\* token) leaves the login's token in storage.
C25_Late401KeepsLoginToken ==
  [][\A q \in Requests :
        (/\ token = LoginToken
         /\ q.auth # <<"Bearer ", LoginToken>>
         /\ Handled401(q))
          => token' = LoginToken]_vars

\* C23: login stores the access token and sets the user when, and only when,
\* its request succeeds; when the request fails, with a 401 or any other
\* error, that error reaches the caller and the stored token, the user and
\* the cached profile are what they were.
C23_LoginWritesOnlyOnSuccess ==
  [][/\ \A q \in Requests, resp \in Errors :
          (q.caller = "login" /\ (RetriedWith(q, resp) \/ RejectedWith(q, resp)))
            => (token' = token /\ user' = user /\ authUser' = authUser)
     /\ \A q \in Requests, resp \in Errors :
          (q.caller = "login" /\ RejectedWith(q, resp))
            => (settled'.st = "rejected" /\ settled'.resp = resp)
     /\ (settled'.caller = "login" /\ settled'.st = "resolved")
          => (token' = LoginToken /\ user' = UserData)
     /\ (token' = LoginToken /\ token # LoginToken)
          => (settled'.caller = "login" /\ settled'.st = "resolved")]_vars

\* a login was just rejected with a 500 on its retry while the token of an
\* earlier session is still stored
C23_Witness ==
  /\ settled.caller = "login"
  /\ settled.st = "rejected"
  /\ settled.resp = "E500"
  /\ settled.attempts = 2
  /\ token = StoredToken
  /\ user = NoUser

\* C22: when logout completes, whether it made no request, or its request
\* succeeded or failed, no token is stored and the user is null.
C22_LogoutClearsSession ==
  [][(settled'.caller = "logout" /\ settled'.st \in {"resolved", "rejected"})
       => (token' = NoToken /\ user' = NoUser)]_vars

\* logout has just completed, without a request, in a page that held a token
\* and had issued requests
C22_Witness ==
  /\ settled.caller = "logout"
  /\ settled.st = "resolved"
  /\ settled.attempts = 0
  /\ token = NoToken
  /\ user = NoUser
  /\ location = LoginPath
  /\ issued > 0

\* C29 (as specified): for every location p from which the interceptor
\* forces the redirect, the login page that is loaded holds p as the path to
\* return to, and the login made on it navigates to p.
C29_ReturnPathRoundTrip ==
  [][/\ (navs # <<>> /\ ~StartsWith(location, LoginPath)
           /\ StartsWith(location', LoginPath))
          => redirectPath' = location
     /\ (navs # <<>> /\ settled'.caller = "login" /\ settled'.st = "resolved")
          => navs[1].href = RedirectHref(location')]_vars

\* C24: AuthProvider does not stay loading: from some point on isLoading is
\* false, whatever the identity-check calls are answered, when every attempt
\* gets a response or times out.
C24_LoadingEnds == <>[](isLoading = FALSE)

\* C24 witness: the identity check made while loading was rejected with a
\* 401 after a retry, and the provider is no longer loading.
C24_Witness ==
  /\ ~isLoading
  /\ settled.caller = "isTokenValid"
  /\ settled.st = "rejected"
  /\ settled.attempts > 1

\* C28 (as specified): every request the page issues through apiClient
\* settles, whatever the other requests to the same URL do.
C28_EveryRequestSettles ==
  \A c \in {"getDocuments", "uploadDocument"} : Pending(c) ~> ~Pending(c)

\* C21: the listener of a tab follows the token the other tab writes: when
\* the token has been removed it sets its user to null; when the token has
\* been replaced by a different value it calls fetchUser, and the request
\* carries the token that is in storage, which is the new value unless the
\* token has been written again since.
C21_ListenerFollowsToken ==
  [][(storageEvents # <<>> /\ storageEvents' = Tail(storageEvents)
        /\ Head(storageEvents).key = "token")
     => LET e == Head(storageEvents)
        IN /\ e.newValue = NoToken => user' = NoUser
           /\ (e.newValue # NoToken /\ e.newValue # e.oldValue)
                => /\ reqs' = Put(reqs, NewRequest("fetchUser", token))
                   /\ token # NoToken
                        => NewRequest("fetchUser", token).auth = Bearer(token)
                   /\ token = e.newValue
                        => NewRequest("fetchUser", token).auth = Bearer(e.newValue)]_vars

\* C21 witness: the other tab has replaced the token 'abc' by 'xyz' and this
\* tab's request for its user is in flight with the new token.
C21_Witness ==
  /\ token = LoginToken
  /\ peer.user = UserData
  /\ storageEvents # <<>>
  /\ Head(storageEvents).key = "auth_user"
  /\ Head(storageEvents).by = "login"
  /\ \E q \in Requests :
        q.caller = "fetchUser" /\ q.st = "sent" /\ q.auth = Bearer(LoginToken)

\* C30 (as specified): an AuthProvider mounting in another tab does not make
\* this tab's user null: no storage event written by that mount takes an
\* authenticated tab's user away.
C30_MountKeepsOtherTabsUser ==
  [][(storageEvents # <<>> /\ storageEvents' = Tail(storageEvents)
        /\ Head(storageEvents).by = "mount" /\ user # NoUser)
     => user' # NoUser]_vars

====
